---- MODULE Spec2Model ----
(***************************************************************************)
(* A model of dump.py (frida-ipa-dump): the path check of                  *)
(* IPADump.local_path, the Task objects and their buffered output files,   *)
(* the registry IPADump.tasks, the message router IPADump.on_message and   *)
(* the main thread of IPADump.run / IPADump.inject.                        *)
(*                                                                         *)
(* Two threads act on the state.  The main thread walks through run() and  *)
(* inject().  The message callback on_message is invoked by the            *)
(* instrumentation runtime on its own thread, one message at a time, from  *)
(* the moment the script is loaded until the session is detached or the    *)
(* process is gone.                                                        *)
(*                                                                         *)
(* Path strings are sequences of one-character strings, so that            *)
(* os.path.join and str.startswith are computed character by character.   *)
(* A location in the filesystem is a sequence of names (each a sequence of *)
(* characters) below "/".                                                  *)
(***************************************************************************)
EXTENDS Integers, Sequences, FiniteSets, TLC

\* ------------------------------------------------------------------ bounds

\* Messages the runtime delivers to on_message in one run, for each of the
\* three agents below.
MaxMsgsPaths == 4
MaxMsgsData == 4
MaxMsgsMeta == 3
\* Bytes delivered to one session key between its start and its end.
MaxLen == 2
\* Task objects that were replaced in the registry and not yet finalized.
MaxOrphans == 1

\* ------------------------------------------------------- values and inputs

None == "None"
\* info.get(key) of a timestamp the agent did not supply.
Absent == -1

\* The name tempfile.TemporaryDirectory() hands out: "/t/r".
TempRoot == <<"/", "t", "/", "r">>

\* The location of the workspace, and the directories that exist before it.
RootLoc == << <<"t">>, <<"r">> >>
BaseDirs == { <<>>, << <<"t">> >> }

\* Relative paths the agent sends:
\*   "a", "d", "d/a", "../e", "/e", "/t/rx", "" and ".".
RelPaths ==
    { <<"a">>, <<"d">>, <<"d", "/", "a">>,
      <<".", ".", "/", "e">>, <<"/", "e">>,
      <<"/", "t", "/", "r", "x">>, <<>>, <<".">> }

\* Plain names below the workspace: "a" and "b".
PlainPaths == { <<"a">>, <<"b">> }

\* Session keys the agent uses.
Keys == {1, 2}

\* Binary payloads of download-data events.
Payloads == { <<>>, <<1>>, <<2>> }

\* The clock value the filesystem stamps on a file it creates or writes.
Now == 9
\* The mode open() gives a new file: 0o644.
DefaultMode == 420

\* A permission os.chmod cannot pass on because it does not fit a C int:
\* 2^31, one more than the largest integer TLC can hold, so it is written as
\* a value of its own that no other info uses.
TooLarge == -2

\* The info dictionaries the agent sends with download-start.  creation and
\* modification may be absent (info.get gives None); permission is required.
Infos ==
    { [creation |-> Absent, modification |-> Absent, permission |-> 384],
      [creation |-> 5,    modification |-> 7,    permission |-> 493],
      [creation |-> 0,    modification |-> 7,    permission |-> 384],
      [creation |-> 5,    modification |-> Absent, permission |-> 493],
      [creation |-> Absent, modification |-> 0,    permission |-> 384],
      [creation |-> 5,    modification |-> 7,    permission |-> TooLarge] }

OneInfo == [creation |-> 5, modification |-> 7, permission |-> 493]

\* What the agent of a run may send.  The input space is explored in three
\* parts: every kind of path with one key; two keys with every payload on
\* plain paths; every info on one path with one key.
AgentPaths ==
    [paths |-> RelPaths, keys |-> {1}, infos |-> {OneInfo},
     payloads |-> { <<1>> }, max |-> MaxMsgsPaths]
AgentData ==
    [paths |-> PlainPaths, keys |-> Keys, infos |-> {OneInfo},
     payloads |-> Payloads, max |-> MaxMsgsData]
AgentMeta ==
    [paths |-> { <<"a">> }, keys |-> {1}, infos |-> Infos,
     payloads |-> { <<1>> }, max |-> MaxMsgsMeta]

\* ------------------------------------------------------------ path strings

\* str.startswith
StartsWith(s, p) == Len(s) >= Len(p) /\ SubSeq(s, 1, Len(p)) = p

\* os.path.join(a, b) of posixpath: an absolute b replaces a; otherwise b is
\* appended to a, after a "/" unless a is empty or ends with one.
join(a, b) ==
    IF Len(b) > 0 /\ b[1] = "/" THEN b
    ELSE IF a = <<>> \/ a[Len(a)] = "/" THEN a \o b
    ELSE a \o <<"/">> \o b

\* The names between the slashes of a path string; empty names (repeated
\* or trailing slashes) are dropped, as the kernel's path walk does.
RECURSIVE Components(_, _, _)
Components(s, i, cur) ==
    IF i > Len(s)
    THEN (IF cur = <<>> THEN <<>> ELSE <<cur>>)
    ELSE IF s[i] = "/"
         THEN (IF cur = <<>> THEN <<>> ELSE <<cur>>) \o Components(s, i + 1, <<>>)
         ELSE Components(s, i + 1, Append(cur, s[i]))

Parent(loc) == IF loc = <<>> THEN <<>> ELSE SubSeq(loc, 1, Len(loc) - 1)

\* The kernel's walk of an absolute path over the directories ds: every name
\* is looked up in an existing directory; "." stays, ".." goes to the parent.
\* The result is the location the path names (which may not exist yet), or
\* ok = FALSE when a directory on the way is missing.
RECURSIVE Walk(_, _, _)
Walk(comps, cur, ds) ==
    IF comps = <<>> THEN [ok |-> TRUE, loc |-> cur]
    ELSE IF cur \notin ds THEN [ok |-> FALSE, loc |-> <<>>]
    ELSE LET c == Head(comps) IN
         IF c = <<".">> THEN Walk(Tail(comps), cur, ds)
         ELSE IF c = <<".", ".">> THEN Walk(Tail(comps), Parent(cur), ds)
         ELSE Walk(Tail(comps), Append(cur, c), ds)

Resolve(p, ds) == Walk(Components(p, 1, <<>>), <<>>, ds)

\* The error of a walk that fails: ENOTDIR when the name that is not a
\* directory is a file, ENOENT when nothing has that name.
RECURSIVE WalkError(_, _, _, _)
WalkError(comps, cur, ds, fs) ==
    IF comps = <<>> THEN "ok"
    ELSE IF cur \notin ds
    THEN (IF cur \in DOMAIN fs THEN "NotADirectoryError"
          ELSE "FileNotFoundError")
    ELSE LET c == Head(comps) IN
         IF c = <<".">> THEN WalkError(Tail(comps), cur, ds, fs)
         ELSE IF c = <<".", ".">> THEN WalkError(Tail(comps), Parent(cur), ds, fs)
         ELSE WalkError(Tail(comps), Append(cur, c), ds, fs)

ResolveError(p, ds, fs) == WalkError(Components(p, 1, <<>>), <<>>, ds, fs)

\* A location is the workspace root or lies below it.
Under(loc, root) == StartsWith(loc, root)

\* ------------------------------------------------------------------- state

VARIABLES
    agent,     \* what the agent of this run may send (fixed in a run)
    pc,        \* where the main thread is in run() / inject(), or how it ended
    tempdir,   \* IPADump.tempdir: the workspace path string (<<>> for None)
    session,   \* IPADump.session: None, "attached" or "detached"
    dirs,      \* the directories that exist
    files,     \* the regular files that exist: location -> data and metadata
    tasks,     \* IPADump.tasks: session key -> Task
    orphans,   \* Task file objects no longer referenced, not yet finalized
    archive,   \* what shutil.make_archive wrote: made, and the files it held
    nmsg,      \* messages delivered so far
    last,      \* the last message on_message handled, and how it returned
    sent       \* per key, the payloads written since the key's last start

vars == <<agent, pc, tempdir, session, dirs, files, tasks, orphans, archive, nmsg,
          last, sent>>

\* The part of the state the message handlers read and change.
Cur == [dirs |-> dirs, files |-> files, tasks |-> tasks, orphans |-> orphans,
        session |-> session, sent |-> sent]

Ok(st) == [st |-> st, result |-> "ok"]
Raise(st, e) == [st |-> st, result |-> e]

\* ------------------------------------------------- files and file objects

Zeros(n) == [i \in 1..n |-> 0]

\* pwrite: buf stored at offset pos of data (a hole reads as zeros).
WriteAt(data, pos, buf) ==
    LET head == IF pos <= Len(data) THEN SubSeq(data, 1, pos)
                ELSE data \o Zeros(pos - Len(data))
        tail == SubSeq(data, pos + Len(buf) + 1, Len(data))
    IN head \o buf \o tail

PutFile(fs, loc, rec) ==
    [x \in (DOMAIN fs) \cup {loc} |-> IF x = loc THEN rec ELSE fs[x]]

\* BufferedWriter.flush: the buffered bytes go to the file at the object's
\* offset; a file object whose file was unlinked writes to no visible file.
Flush(fs, f) ==
    IF f.buf = <<>> \/ f.unlinked \/ f.loc \notin DOMAIN fs THEN fs
    ELSE PutFile(fs, f.loc,
                 [fs[f.loc] EXCEPT !.data = WriteAt(@, f.pos, f.buf),
                                   !.mtime = Now])

TrailingSlash(p) == p # <<>> /\ p[Len(p)] = "/"

\* open as it would be after os.makedirs(os.path.dirname(path),
\* exist_ok=True): the directories on the way to the file are made first.
open_makedirs(st, path) ==
    LET comps == Components(path, 1, <<>>)
        made == {SubSeq(comps, 1, n) : n \in 0..(Len(comps) - 1)}
        ds == st.dirs \cup {d \in made : d \notin DOMAIN st.files}
        r == Resolve(path, ds)
    IN
    IF ~r.ok THEN [err |-> ResolveError(path, ds, st.files), st |-> st,
                   file |-> <<>>]
    ELSE IF r.loc \in ds \/ TrailingSlash(path)
    THEN [err |-> "IsADirectoryError", st |-> st, file |-> <<>>]
    ELSE LET rec == IF r.loc \in DOMAIN st.files
                    THEN [st.files[r.loc] EXCEPT !.data = <<>>, !.mtime = Now]
                    ELSE [data |-> <<>>, atime |-> Now, mtime |-> Now,
                          mode |-> DefaultMode]
         IN [err |-> "ok",
             st |-> [st EXCEPT !.dirs = ds,
                               !.files = PutFile(st.files, r.loc, rec)],
             file |-> [loc |-> r.loc, pos |-> 0, buf |-> <<>>,
                       unlinked |-> FALSE, closed |-> FALSE]]

\* open(path, 'wb'): the parent directory must exist; a directory cannot be
\* opened for writing; an existing file is truncated, a missing one created.
open(st, path) ==
    LET r == Resolve(path, st.dirs) IN
    IF ~r.ok THEN [err |-> ResolveError(path, st.dirs, st.files), st |-> st,
                   file |-> <<>>]
    ELSE IF r.loc \in st.dirs \/ TrailingSlash(path)
    THEN [err |-> "IsADirectoryError", st |-> st, file |-> <<>>]
    ELSE LET rec == IF r.loc \in DOMAIN st.files
                    THEN [st.files[r.loc] EXCEPT !.data = <<>>, !.mtime = Now]
                    ELSE [data |-> <<>>, atime |-> Now, mtime |-> Now,
                          mode |-> DefaultMode]
         IN [err |-> "ok",
             st |-> [st EXCEPT !.files = PutFile(st.files, r.loc, rec)],
             file |-> [loc |-> r.loc, pos |-> 0, buf |-> <<>>,
                       unlinked |-> FALSE, closed |-> FALSE]]

\* What BufferedWriter.write may do with the bytes, depending on how full
\* its buffer is: keep them, flush the old buffer first, or write through.
WriteModes == {"buffer", "flush_old", "through"}

\* ------------------------------------------------------------------- Task

\* Task.__init__
Task_init(st, path, info) ==
    LET o == open(st, path) IN
    [err |-> o.err, st |-> o.st,
     task |-> [path |-> path, info |-> info, file |-> o.file]]

\* Task.write
write(st, k, data, mode) ==
    LET f == st.tasks[k].file
        all == f.buf \o data
    IN IF data = <<>> \/ mode = "buffer"
       THEN [st EXCEPT !.tasks[k].file.buf = all]
       ELSE IF mode = "flush_old"
       THEN [st EXCEPT !.files = Flush(st.files, f),
                       !.tasks[k].file.pos = f.pos + Len(f.buf),
                       !.tasks[k].file.buf = data]
       ELSE [st EXCEPT !.files = Flush(st.files, [f EXCEPT !.buf = all]),
                       !.tasks[k].file.pos = f.pos + Len(all),
                       !.tasks[k].file.buf = <<>>]

\* Task.close: file.close flushes the buffer; closing a closed file object
\* does nothing.
close(st, k) ==
    [st EXCEPT !.files = Flush(st.files, st.tasks[k].file),
               !.tasks[k].file.buf = <<>>,
               !.tasks[k].file.pos = @ + Len(st.tasks[k].file.buf),
               !.tasks[k].file.closed = TRUE]

\* all(time_pair): both values are truthy (None and 0 are not).
Truthy(v) == v # Absent /\ v # 0
AllTimes(info) == Truthy(info.creation) /\ Truthy(info.modification)

\* os.utime(path, (creation, modification)): access and modification time.
utime(fs, loc, info) ==
    IF loc \in DOMAIN fs
    THEN PutFile(fs, loc, [fs[loc] EXCEPT !.atime = info.creation,
                                          !.mtime = info.modification])
    ELSE fs

\* os.chmod(path, permission)
chmod(fs, loc, info) ==
    IF loc \in DOMAIN fs
    THEN PutFile(fs, loc, [fs[loc] EXCEPT !.mode = info.permission])
    ELSE fs

\* os.chmod converts its mode to a C int before anything else and raises
\* OverflowError when it does not fit.
ValidMode(p) == p # TooLarge

\* Task.finish: close, then utime (when all(time_pair)) and chmod on the
\* task's path.  FileNotFoundError from either is swallowed, and ends the
\* try block; any other exception leaves finish.
finish(st, k) ==
    LET t == st.tasks[k]
        c == close(st, k)
        r == Resolve(t.path, c.dirs)
        found == r.ok /\ (r.loc \in DOMAIN c.files \/ r.loc \in c.dirs)
        timed == IF AllTimes(t.info) /\ found
                 THEN [c EXCEPT !.files = utime(@, r.loc, t.info)]
                 ELSE c
        e == ResolveError(t.path, c.dirs, c.files)
    IN IF AllTimes(t.info) /\ e = "NotADirectoryError" THEN Raise(c, e)
       ELSE IF AllTimes(t.info) /\ ~found THEN Ok(c)
       ELSE IF ~ValidMode(t.info.permission) THEN Raise(timed, "OverflowError")
       ELSE IF e = "NotADirectoryError" THEN Raise(c, e)
       ELSE IF ~found THEN Ok(c)
       ELSE Ok([timed EXCEPT !.files = chmod(@, r.loc, t.info)])

\* ---------------------------------------------------------------- IPADump

\* IPADump.local_path: the joined path, and whether ValueError is raised.
local_path(relative) ==
    LET p == join(tempdir, relative)
    IN [raised |-> ~StartsWith(p, tempdir), path |-> p]

\* os.mkdir
mkdir(st, path) ==
    LET r == Resolve(path, st.dirs) IN
    IF ~r.ok THEN Raise(st, ResolveError(path, st.dirs, st.files))
    ELSE IF r.loc \in st.dirs \/ r.loc \in DOMAIN st.files
    THEN Raise(st, "FileExistsError")
    ELSE Ok([st EXCEPT !.dirs = @ \cup {r.loc}])

\* IPADump.on_mkdir
on_mkdir(st, path) ==
    LET lp == local_path(path) IN
    IF lp.raised THEN Raise(st, "ValueError")
    ELSE mkdir(st, lp.path)

\* self.tasks[session] = task: a Task that was stored under the key loses
\* its last reference with its file object still open.
StoreTask(st, k, task) ==
    [st EXCEPT
        !.tasks = [x \in (DOMAIN st.tasks) \cup {k} |->
                       IF x = k THEN task ELSE st.tasks[x]],
        !.orphans = IF k \in DOMAIN st.tasks /\ ~st.tasks[k].file.closed
                    THEN Append(@, st.tasks[k].file) ELSE @,
        !.sent[k] = <<>>]

\* on_download_start as it would be with the Task made before the path is
\* checked: the file is opened first.
on_download_start_unchecked(st, k, relative, info) ==
    LET lp == local_path(relative)
        t == Task_init(st, lp.path, info) IN
    IF t.err # "ok" THEN Raise(st, t.err)
    ELSE IF lp.raised THEN Raise(t.st, "ValueError")
    ELSE Ok(StoreTask(t.st, k, t.task))

\* IPADump.on_download_start
on_download_start(st, k, relative, info) ==
    LET lp == local_path(relative) IN
    IF lp.raised THEN Raise(st, "ValueError")
    ELSE LET t == Task_init(st, lp.path, info) IN
         IF t.err # "ok" THEN Raise(st, t.err)
         ELSE Ok(StoreTask(t.st, k, t.task))

\* IPADump.on_download_data
on_download_data(st, k, data, mode) ==
    IF k \notin DOMAIN st.tasks THEN Raise(st, "KeyError")
    ELSE IF st.tasks[k].file.closed THEN Raise(st, "ValueError")
    ELSE Ok([write(st, k, data, mode) EXCEPT !.sent[k] = @ \o data])

\* The removal as it would be with self.tasks.clear(): every key goes.
DelTask_clear(st, k) ==
    [st EXCEPT !.tasks = <<>>]

\* del self.tasks[session]
DelTask(st, k) ==
    [st EXCEPT !.tasks = [x \in (DOMAIN st.tasks) \ {k} |-> st.tasks[x]]]

\* close_session as it would be with self.tasks.pop(session, None): a key
\* that is not in the registry is passed over in silence.
close_session_lenient(st, k) ==
    IF k \notin DOMAIN st.tasks THEN Ok(st)
    ELSE LET f == finish(st, k) IN
         IF f.result # "ok" THEN f ELSE Ok(DelTask(f.st, k))

\* IPADump.close_session (on_download_finish and on_download_error call it)
close_session(st, k) ==
    IF k \notin DOMAIN st.tasks THEN Raise(st, "KeyError")
    ELSE LET f == finish(st, k) IN
         IF f.result # "ok" THEN f ELSE Ok(DelTask(f.st, k))

\* The events of the method_mapping of on_message.
Events == {"start", "data", "end", "error"}

\* IPADump.on_message: the state it leaves and how it returns ("ok", or
\* the exception that escapes it).
on_message(st, msg, mode) ==
    IF msg.type # "send" THEN Ok(st)
    ELSE IF msg.subject = "download"
    THEN IF msg.event \notin Events THEN Raise(st, "KeyError")
         ELSE IF msg.event = "start"
         THEN on_download_start(st, msg.session, msg.relative, msg.info)
         ELSE IF msg.event = "data"
         THEN on_download_data(st, msg.session, msg.data, mode)
         ELSE close_session(st, msg.session)
    ELSE IF msg.subject = "finish"
    THEN Raise([st EXCEPT !.session = "detached"], "SystemExit")
    ELSE IF msg.subject = "mkdir" THEN on_mkdir(st, msg.relative)
    ELSE Ok(st)

\* -------------------------------------------------------------- messages

Msg(type, subject, event, k, relative, info, data) ==
    [type |-> type, subject |-> subject, event |-> event, session |-> k,
     relative |-> relative, info |-> info, data |-> data]

NoInfo == [creation |-> Absent, modification |-> Absent, permission |-> 384]

\* An envelope that is not of type send, a send envelope of an unknown
\* subject, the finish subject.
PlainMsgs ==
    { Msg("error", "none", "none", 1, <<>>, NoInfo, <<>>),
      Msg("send", "other", "none", 1, <<>>, NoInfo, <<>>),
      Msg("send", "finish", "none", 1, <<>>, NoInfo, <<>>) }

MkdirMsgs ==
    { Msg("send", "mkdir", "none", 1, p, NoInfo, <<>>) : p \in agent.paths }

StartMsgs ==
    { Msg("send", "download", "start", k, p, i, <<>>) :
        k \in agent.keys, p \in agent.paths, i \in agent.infos }

DataMsgs ==
    { Msg("send", "download", "data", k, <<>>, NoInfo, d) :
        k \in agent.keys, d \in agent.payloads }

\* end, error, an event the mapping does not know, and a missing event.
EventMsgs ==
    { Msg("send", "download", e, k, <<>>, NoInfo, <<>>) :
        e \in {"end", "error", "bogus", "none"}, k \in agent.keys }

Msgs == PlainMsgs \cup MkdirMsgs \cup StartMsgs \cup DataMsgs \cup EventMsgs

\* What the last record keeps of a message.
Kind(msg) ==
    IF msg.type # "send" THEN "nonsend"
    ELSE IF msg.subject = "download"
    THEN (IF msg.event \in Events THEN msg.event ELSE "badevent")
    ELSE IF msg.subject \in {"finish", "mkdir"} THEN msg.subject
    ELSE "other"

NoLast == [kind |-> "none", session |-> 1, relative |-> <<>>,
           result |-> "ok"]

\* ------------------------------------------------------------ main thread

\* shutil.rmtree of the workspace: everything at or below the root goes, and
\* the file objects still open on those files are left on unlinked files.
Gone(f) == [f EXCEPT !.unlinked = @ \/ Under(f.loc, RootLoc)]

Rmtree(st) ==
    [st EXCEPT
        !.dirs = {d \in @ : ~Under(d, RootLoc)},
        !.files = [x \in {y \in DOMAIN @ : ~Under(y, RootLoc)} |-> @[x]],
        !.tasks = [k \in DOMAIN @ |-> [@[k] EXCEPT !.file = Gone(@)]],
        !.orphans = [i \in 1..Len(@) |-> Gone(@[i])]]

Assign(st) ==
    /\ dirs' = st.dirs
    /\ files' = st.files
    /\ tasks' = st.tasks
    /\ orphans' = st.orphans
    /\ session' = st.session
    /\ sent' = st.sent

\* An exception leaves the with block of run(): the TemporaryDirectory is
\* cleaned up and the exception leaves run(); line 161 is not reached.
Unwind ==
    /\ Assign(Rmtree(Cur))
    /\ pc' = "raised"
    /\ UNCHANGED <<agent, tempdir, archive, nmsg, last>>

\* run(), lines 156-157: the workspace is created.
RunEnter ==
    /\ pc = "start"
    /\ tempdir' = TempRoot
    /\ dirs' = dirs \cup {RootLoc}
    /\ pc' = "attach"
    /\ UNCHANGED <<agent, session, files, tasks, orphans, archive, nmsg, last,
                   sent>>

\* inject(), lines 143-148: read the agent, spawn, attach.
InjectAttach ==
    /\ pc = "attach"
    /\ \/ /\ session' = "attached"
          /\ pc' = "create_script"
          /\ UNCHANGED <<agent, tempdir, dirs, files, tasks, orphans, archive, nmsg,
                         last, sent>>
       \/ Unwind

\* inject(), lines 149-151: create_script, set_log_handler, on('message').
InjectCreateScript ==
    /\ pc = "create_script"
    /\ \/ /\ pc' = "load"
          /\ UNCHANGED <<agent, tempdir, session, dirs, files, tasks, orphans,
                         archive, nmsg, last, sent>>
       \/ Unwind

\* inject(), line 152: script.load().
InjectLoad ==
    /\ pc = "load"
    /\ \/ /\ pc' = "dump"
          /\ UNCHANGED <<agent, tempdir, session, dirs, files, tasks, orphans,
                         archive, nmsg, last, sent>>
       \/ Unwind

\* inject(), line 153: script.exports.dump() returns or raises.
InjectDump ==
    /\ pc = "dump"
    /\ \/ /\ pc' = "package"
          /\ UNCHANGED <<agent, tempdir, session, dirs, files, tasks, orphans,
                         archive, nmsg, last, sent>>
       \/ Unwind

\* What an archive of the workspace holds: the files below the root as they
\* are on disk (bytes still in a file object's buffer are not in them).
Snapshot ==
    [made |-> TRUE,
     files |-> [x \in {y \in DOMAIN files : Under(y, RootLoc)} |-> files[x].data]]

\* run(), lines 159-160: shutil.make_archive of the workspace.
Package ==
    /\ pc = "package"
    /\ \/ /\ archive' = Snapshot
          /\ pc' = "cleanup"
          /\ UNCHANGED <<agent, tempdir, session, dirs, files, tasks, orphans, nmsg,
                         last, sent>>
       \/ Unwind

\* run(), the end of the with block of line 156.
Cleanup ==
    /\ pc = "cleanup"
    /\ Assign(Rmtree(Cur))
    /\ pc' = "detach"
    /\ UNCHANGED <<agent, tempdir, archive, nmsg, last>>

\* run(), line 161.
Detach ==
    /\ pc = "detach"
    /\ session' = "detached"
    /\ pc' = "done"
    /\ UNCHANGED <<agent, tempdir, dirs, files, tasks, orphans, archive, nmsg, last,
                   sent>>

\* ---------------------------------------------------------- message thread

\* The runtime delivers messages once the script is loaded (line 152) and
\* while the session is attached and the process lives.
ChannelOpen ==
    /\ pc \in {"dump", "package", "cleanup", "detach"}
    /\ session = "attached"

\* The bounds of the model on what the agent sends.
WithinBounds(msg) ==
    /\ nmsg < agent.max
    /\ (Kind(msg) = "data" /\ msg.session \in DOMAIN tasks)
         => Len(sent[msg.session]) + Len(msg.data) <= MaxLen
    /\ (Kind(msg) = "start" /\ msg.session \in DOMAIN tasks)
         => Len(orphans) < MaxOrphans

\* One message is delivered and on_message handles it.
OnMessage ==
    /\ ChannelOpen
    /\ \E msg \in Msgs, mode \in WriteModes :
        /\ WithinBounds(msg)
        /\ (mode # "buffer") => (Kind(msg) = "data" /\ msg.data # <<>>)
        /\ LET r == on_message(Cur, msg, mode) IN
            /\ Assign(r.st)
            /\ last' = [kind |-> Kind(msg), session |-> msg.session,
                        relative |-> msg.relative, result |-> r.result]
        /\ nmsg' = nmsg + 1
        /\ UNCHANGED <<agent, pc, tempdir, archive>>

\* An exception that escaped on_message is the runtime's to deal with.  It
\* may log it and go on delivering (no step here), or the interpreter may
\* exit on it; the TemporaryDirectory's finalizer then removes the workspace.
CallbackExit ==
    /\ pc \notin {"done", "raised", "exited"}
    /\ last.result # "ok"
    /\ Assign(Rmtree(Cur))
    /\ pc' = "exited"
    /\ UNCHANGED <<agent, tempdir, archive, nmsg, last>>

\* The garbage collector finalizes a file object nothing refers to: its
\* buffer is flushed and the descriptor closed.
FinalizeOrphan ==
    /\ pc \notin {"done", "raised", "exited"}
    /\ \E i \in 1..Len(orphans) :
        /\ files' = Flush(files, orphans[i])
        /\ orphans' = [j \in 1..(Len(orphans) - 1) |->
                          IF j < i THEN orphans[j] ELSE orphans[j + 1]]
    /\ UNCHANGED <<agent, pc, tempdir, session, dirs, tasks, archive, nmsg,
                   last, sent>>

\* ------------------------------------------------------- the specification

Start(a) ==
    /\ agent = a
    /\ pc = "start"
    /\ tempdir = <<>>
    /\ session = None
    /\ dirs = BaseDirs
    /\ files = <<>>
    /\ tasks = <<>>
    /\ orphans = <<>>
    /\ archive = [made |-> FALSE, files |-> <<>>]
    /\ nmsg = 0
    /\ last = NoLast
    /\ sent = [k \in Keys |-> <<>>]

Next ==
    \/ RunEnter
    \/ InjectAttach
    \/ InjectCreateScript
    \/ InjectLoad
    \/ InjectDump
    \/ Package
    \/ Cleanup
    \/ Detach
    \/ OnMessage
    \/ CallbackExit
    \/ FinalizeOrphan

\* One specification for each agent.
SpecPaths == Start(AgentPaths) /\ [][Next]_vars
SpecData == Start(AgentData) /\ [][Next]_vars
SpecMeta == Start(AgentMeta) /\ [][Next]_vars

Init == Start(AgentData)
Spec == SpecData

\* ------------------------------------------------------------- properties

\* The run has ended: run() returned, an exception left run(), or the
\* interpreter exited from the message thread.
Ended == pc \in {"done", "raised", "exited"}

\* The step is the handling of one message.
Handled == nmsg' = nmsg + 1

\* The location a path string names, resolved lexically (os.path.normpath).
RECURSIVE Normal(_, _)
Normal(comps, cur) ==
    IF comps = <<>> THEN cur
    ELSE LET c == Head(comps) IN
         IF c = <<".">> THEN Normal(Tail(comps), cur)
         ELSE IF c = <<".", ".">> THEN Normal(Tail(comps), Parent(cur))
         ELSE Normal(Tail(comps), Append(cur, c))

NormLoc(p) == Normal(Components(p, 1, <<>>), <<>>)

HasDotDot(relative) == <<".", ".">> \in
    {Components(relative, 1, <<>>)[i] :
        i \in 1..Len(Components(relative, 1, <<>>))}

IsAbsolute(relative) == Len(relative) > 0 /\ relative[1] = "/"

\* A relative path with a ".." segment or an absolute prefix whose resolved
\* location is not under the workspace root.
Escapes(relative) ==
    /\ HasDotDot(relative) \/ IsAbsolute(relative)
    /\ ~Under(NormLoc(join(TempRoot, relative)), RootLoc)

\* C1: a mkdir or download-start event whose relative path escapes the
\* workspace root raises the illegal-path error (ValueError) and leaves every
\* directory and file as it was.
C1_EscapingPathRejected ==
    [][(Handled /\ last'.kind \in {"mkdir", "start"}
         /\ Escapes(last'.relative))
       => (last'.result = "ValueError" /\ dirs' = dirs /\ files' = files)]_vars

\* C1, the failing case reached: a mkdir of "../e" returned normally and the
\* directory /t/e exists outside the workspace.
C1_EscapeReached ==
    /\ last.kind = "mkdir"
    /\ last.relative = <<".", ".", "/", "e">>
    /\ last.result = "ok"
    /\ << <<"t">>, <<"e">> >> \in dirs

\* C7: once the run has ended, the workspace directory does not exist.
C7_WorkspaceRemovedAtExit == Ended => RootLoc \notin dirs

\* C8: once the run has ended, a session that was attached is detached.
C8_DetachedAtExit == (Ended /\ session # None) => session = "detached"

\* C9: a run in which the router handled the finish subject does not end
\* without the workspace having been archived.
C9_FinishThenPackaged == (Ended /\ last.kind = "finish") => archive.made

\* C2: when a download-end event closes the task of a key (the workspace
\* still being there), the file of that task holds exactly the payloads
\* delivered for the key since its start, in the order they came.
C2_FileIsConcatenation ==
    [][\A k \in Keys :
        (Handled /\ last'.kind = "end" /\ last'.session = k
           /\ last'.result = "ok" /\ k \in DOMAIN tasks
           /\ ~tasks[k].file.unlinked)
        => LET loc == tasks[k].file.loc IN
           loc \in DOMAIN files' /\ files'[loc].data = sent[k]]_vars

\* C3: a download-start event for a key that is in the registry fails with a
\* duplicate-session error and leaves the registry and the files as they
\* were.
C3_DuplicateStartRejected ==
    [][\A k \in Keys :
        (Handled /\ last'.kind = "start" /\ last'.session = k
           /\ k \in DOMAIN tasks)
        => (last'.result = "DuplicateSession"
            /\ tasks' = tasks /\ files' = files)]_vars

\* C4: a download-end or download-error event for a key with no open task
\* fails with the unknown-session error (KeyError), and the registry, the
\* open file objects and the files are unchanged.
C4_UnknownCloseFails ==
    [][\A k \in Keys :
        (Handled /\ last'.kind \in {"end", "error"} /\ last'.session = k
           /\ k \notin DOMAIN tasks)
        => (last'.result = "KeyError"
            /\ tasks' = tasks /\ orphans' = orphans
            /\ files' = files /\ dirs' = dirs)]_vars

\* C4, its case reached: an end or error event for a key that was closed
\* before failed with KeyError while another key's task is open.
C4_UnknownCloseReached ==
    /\ last.kind \in {"end", "error"}
    /\ last.result = "KeyError"
    /\ last.session \notin DOMAIN tasks
    /\ DOMAIN tasks # {}
    /\ \E k \in DOMAIN tasks : tasks[k].file.buf # <<>>

\* C5: an envelope that is not of type send, a send envelope of an unknown
\* subject and a download envelope of an unknown or missing event return
\* normally from on_message and leave the run where it was.
C5_UnknownMessagesReturn ==
    [][(Handled /\ last'.kind \in {"nonsend", "other", "badevent"})
       => (last'.result = "ok" /\ pc' = pc /\ session' = session
           /\ tasks' = tasks /\ files' = files /\ dirs' = dirs)]_vars

\* C6: a data, end or error event for a key that is not in the registry
\* returns normally from on_message (it is ignored), and leaves the registry,
\* the files and the run as they were.
C6_UnknownKeyIgnored ==
    [][\A k \in Keys :
        (Handled /\ last'.kind \in {"data", "end", "error"}
           /\ last'.session = k /\ k \notin DOMAIN tasks)
        => (last'.result = "ok" /\ pc' = pc
            /\ tasks' = tasks /\ files' = files)]_vars

\* The file a task's path names exists.
TaskFileExists(t) ==
    LET r == Resolve(t.path, dirs) IN r.ok /\ r.loc \in DOMAIN files

Supplied(v) == v # Absent

\* C10: after Task.finish on an existing file, the file's mode is
\* info.permission; its access and modification times are the supplied
\* creation and modification values when both were supplied (0 included),
\* and are not set by finish when either is absent.
C10_MetadataRestored ==
    [][\A k \in Keys :
        (Handled /\ last'.kind \in {"end", "error"} /\ last'.session = k
           /\ k \in DOMAIN tasks /\ TaskFileExists(tasks[k])
           /\ ValidMode(tasks[k].info.permission))
        => LET t == tasks[k]
               loc == Resolve(t.path, dirs).loc
           IN /\ loc \in DOMAIN files'
              /\ files'[loc].mode = t.info.permission
              /\ IF Supplied(t.info.creation) /\ Supplied(t.info.modification)
                 THEN /\ files'[loc].atime = t.info.creation
                      /\ files'[loc].mtime = t.info.modification
                 ELSE /\ files'[loc].atime = files[loc].atime
                      /\ files'[loc].mtime \in {files[loc].mtime, Now}]_vars

\* C11: whatever goes wrong while Task.finish restores the metadata, the
\* end or error handler of an open key returns normally, the key is removed
\* from the registry and its file object is closed.
C11_RestoreFailureSwallowed ==
    [][\A k \in Keys :
        (Handled /\ last'.kind \in {"end", "error"} /\ last'.session = k
           /\ k \in DOMAIN tasks)
        => /\ last'.result = "ok"
           /\ k \notin DOMAIN tasks']_vars

\* C12: a download-error event for an open key (the workspace still being
\* there) returns normally, removes the key from the registry, and leaves
\* the task's file in place holding exactly the payloads delivered for the
\* key since its start.
C12_ErrorFinalizedLikeEnd ==
    [][\A k \in Keys :
        (Handled /\ last'.kind = "error" /\ last'.session = k
           /\ k \in DOMAIN tasks /\ ~tasks[k].file.unlinked)
        => LET loc == tasks[k].file.loc IN
           /\ last'.result = "ok"
           /\ k \notin DOMAIN tasks'
           /\ loc \in DOMAIN files' /\ files'[loc].data = sent[k]]_vars

\* The events that change the workspace or the registry.
TransferKinds == {"start", "data", "end", "error", "mkdir"}

\* C13: make_archive starts only once the channel is closed (the finish
\* branch closes it), and no download or mkdir event is handled once the
\* workspace has been archived.
C13_PackagingAfterTransfer ==
    [][/\ (~archive.made /\ archive'.made) => session # "attached"
       /\ (Handled /\ last'.kind \in TransferKinds) => ~archive.made]_vars

\* C14: no two tasks in the registry have their file objects open on the
\* same file.
C14_OpenTasksOnDistinctPaths ==
    \A k1 \in DOMAIN tasks, k2 \in DOMAIN tasks :
        (k1 # k2 /\ ~tasks[k1].file.closed /\ ~tasks[k2].file.closed)
        => tasks[k1].file.loc # tasks[k2].file.loc

\* The files an event of key k may touch: the file k's task has open, and
\* for a start the file the new path names.
OwnLocs(k, msgkind, relative) ==
    LET lp == local_path(relative)
        r == Resolve(lp.path, dirs)
    IN (IF k \in DOMAIN tasks THEN {tasks[k].file.loc} ELSE {})
       \cup (IF msgkind = "start" /\ ~lp.raised /\ r.ok THEN {r.loc} ELSE {})

\* The file at a location, or that there is none.
FileAt(fs, loc) == IF loc \in DOMAIN fs THEN <<fs[loc]>> ELSE <<>>

\* C15: when a download event of key k is handled, every other key whose
\* task is on another file than k's keeps its registry entry, its file
\* object and the contents and attributes of its file.
C15_OtherKeysUntouched ==
    [][\A k \in Keys, j \in Keys :
        (Handled /\ last'.kind \in {"start", "data", "end", "error"}
           /\ last'.session = k /\ j # k /\ j \in DOMAIN tasks
           /\ tasks[j].file.loc \notin OwnLocs(k, last'.kind, last'.relative))
        => /\ j \in DOMAIN tasks' /\ tasks'[j] = tasks[j]
           /\ sent'[j] = sent[j]
           /\ FileAt(files', tasks[j].file.loc)
                = FileAt(files, tasks[j].file.loc)]_vars

\* Two keys are open on different files, both have received data, and the
\* last event handled was data for one of them.
C15_InterleavedReached ==
    /\ last.kind = "data" /\ last.result = "ok"
    /\ DOMAIN tasks = {1, 2}
    /\ tasks[1].file.loc # tasks[2].file.loc
    /\ sent[1] # <<>> /\ sent[2] # <<>>

\* C16: every registry entry holds an open file object, and there is no open
\* file object of a task outside the registry.
C16_HandlesMatchRegistry ==
    /\ \A k \in DOMAIN tasks : ~tasks[k].file.closed
    /\ orphans = <<>>

\* C17: a download-start event whose path local_path refuses raises
\* ValueError with no file created or truncated, no directory made and the
\* registry and its file objects as they were.
C17_RefusedStartWritesNothing ==
    [][(Handled /\ last'.kind = "start" /\ local_path(last'.relative).raised)
       => /\ last'.result = "ValueError"
          /\ files' = files /\ dirs' = dirs
          /\ tasks' = tasks /\ orphans' = orphans]_vars

\* A download-start of "/e" was refused while the key's task was open and
\* its file held data.
C17_RefusedStartReached ==
    /\ last.kind = "start" /\ last.result = "ValueError"
    /\ last.relative = <<"/", "e">>
    /\ last.session \in DOMAIN tasks
    /\ \E loc \in DOMAIN files : files[loc].data # <<>>

\* C18: a download-start event for an accepted path with a directory on the
\* way to it missing raises FileNotFoundError: no directory is made, no file
\* is created and the registry is as it was.
C18_MissingParentStartFails ==
    [][(Handled /\ last'.kind = "start" /\ ~local_path(last'.relative).raised
         /\ ResolveError(local_path(last'.relative).path, dirs, files)
              = "FileNotFoundError")
       => /\ last'.result = "FileNotFoundError"
          /\ files' = files /\ dirs' = dirs
          /\ tasks' = tasks /\ orphans' = orphans]_vars

\* A download-start of "d/a" failed in the existing workspace, where there
\* is no directory d.
C18_MissingParentReached ==
    /\ last.kind = "start" /\ last.result = "FileNotFoundError"
    /\ last.relative = <<"d", "/", "a">>
    /\ RootLoc \in dirs
    /\ Append(RootLoc, <<"d">>) \notin dirs

\* C19: local_path refuses a relative path that names the workspace root
\* itself: a mkdir or download-start event with such a path raises
\* ValueError.
C19_RootPathRejected ==
    [][(Handled /\ last'.kind \in {"mkdir", "start"}
         /\ NormLoc(join(TempRoot, last'.relative)) = RootLoc)
       => /\ local_path(last'.relative).raised
          /\ last'.result = "ValueError"]_vars

\* C20: a mkdir event for an accepted path with a directory on the way to
\* it missing raises FileNotFoundError and makes no directory, and once it
\* has failed no further message is handled and no archive is made.
C20_MkdirOrderFatal ==
    [][/\ (Handled /\ last'.kind = "mkdir"
            /\ ~local_path(last'.relative).raised
            /\ ResolveError(local_path(last'.relative).path, dirs, files)
                 = "FileNotFoundError")
          => (last'.result = "FileNotFoundError" /\ dirs' = dirs)
       /\ (last.kind = "mkdir" /\ last.result = "FileNotFoundError")
          => (~Handled /\ archive' = archive)]_vars

====
